---- MODULE Spec2Model ----
(***************************************************************************)
(* Model of brainles_aurora's AuroraInferer                                *)
(* (src/brainles_aurora/inferer/inferer.py): one long-lived instance that  *)
(* serves a sequence of infer calls.  A call runs the steps of infer to    *)
(* its return or its exception; its frame (arguments, locals, what the     *)
(* call did) is dropped when the caller has taken the result.              *)
(***************************************************************************)
EXTENDS Integers, Sequences, FiniteSets, TLC

VARIABLES
    config,               \* self.config (fixed at construction)
    weights,              \* modes for which model_weights/<mode>/<selection>.tar exists
    validated_images,     \* self.validated_images
    inference_mode,       \* self.inference_mode
    input_mode,           \* self.input_mode
    model,                \* self.model
    data_loader,          \* self.data_loader
    output_file_mapping,  \* self.output_file_mapping
    log_file,             \* stream attached to self.dual_stderr_output
    loads,                \* number of checkpoints loaded so far (identity of the next handle)
    calls,                \* number of infer calls started so far
    frame,                \* the last call: arguments, locals, position, effects
    fn,                   \* harness applying the pure functions to drawn inputs
    threads               \* two overlapping calls on the instance: their frames and who wrote what

vars == <<config, weights, validated_images, inference_mode, input_mode, model,
          data_loader, output_file_mapping, log_file, loads, calls, frame, fn, threads>>

self_vars == <<validated_images, inference_mode, input_mode, model,
               data_loader, output_file_mapping, log_file, loads>>

----------------------------------------------------------------------------
(* Bounds *)

MaxCalls == 3

----------------------------------------------------------------------------
(* Values *)

None == "None"
Unset == "unset"          \* an attribute that was never assigned

Channels == <<"t1", "t1c", "t2", "fla">>

\* brainles_aurora.inferer.constants.InferenceMode
Modes == {"t1-t1c-t2-fla", "t1-t1c-fla", "t1-t1c", "t1c-fla", "t1c-o", "fla-o", "t1-o"}

\* brainles_aurora.inferer.constants.IMGS_TO_MODE_DICT, keyed by (T1, T1C, T2, FLAIR)
IMGS_TO_MODE_DICT ==
    ( <<TRUE, TRUE, TRUE, TRUE>>     :> "t1-t1c-t2-fla" ) @@
    ( <<TRUE, TRUE, FALSE, TRUE>>    :> "t1-t1c-fla" ) @@
    ( <<TRUE, TRUE, FALSE, FALSE>>   :> "t1-t1c" ) @@
    ( <<FALSE, TRUE, FALSE, TRUE>>   :> "t1c-fla" ) @@
    ( <<FALSE, TRUE, FALSE, FALSE>>  :> "t1c-o" ) @@
    ( <<FALSE, FALSE, FALSE, TRUE>>  :> "fla-o" ) @@
    ( <<TRUE, FALSE, FALSE, FALSE>>  :> "t1-o" )

\* brainles_aurora.inferer.constants.DataMode
DataMode == {"NIFTI_FILE", "NUMPY"}

\* brainles_aurora.inferer.constants.Output
Output == {"segmentation", "whole_network", "metastasis_network"}

\* What a caller can pass for one channel: nothing, the path of an existing
\* .nii/.nii.gz file, a path that does not exist, the path of an existing file
\* with another extension, or an in-memory array.
ImageArgs == {None, "nifti", "missing", "badext", "ndarray"}

\* Paths of the model: output destinations inside a directory, a bare file
\* name, and the log paths infer derives from the segmentation destination.
SegPath == "out/seg.nii.gz"
BareSegPath == "seg.nii.gz"
WholePath == "out/whole.nii.gz"
MetPath == "out/met.nii.gz"

\* os.path.dirname
Dirname(path) ==
    IF path \in {"out/seg.nii.gz", "out/whole.nii.gz", "out/met.nii.gz", "out/seg.nii.log"}
    THEN "out" ELSE ""

\* Path(path).with_suffix(".log")
WithSuffixLog(path) == IF Dirname(path) = "out" THEN "out/seg.nii.log" ELSE "seg.nii.log"

\* A channel that was not passed, self.validated_images before the first
\* call, and self.model before the first load
NoImage == [type |-> "NoneType", of |-> "-"]
NoImages == <<>>
NoModel == [in_channels |-> 0, weights |-> "unset", ref |-> 0]

\* self.data_loader and self.output_file_mapping before infer first assigns them
NoLoader == [LoadImageD |-> FALSE, EnsureChannelFirstd |-> FALSE, images |-> <<>>]
NoMapping == [segmentation |-> "unset", whole_network |-> "unset",
              metastasis_network |-> "unset"]

\* The attributes AbstractInferer.__init__, AuroraInferer.__init__,
\* _validate_images and infer ever assign on the instance.
InstanceAttrs == {"config", "dual_stderr_output", "log", "lib_path",
                  "model_weights_folder", "device", "validated_images",
                  "inference_mode", "input_mode", "model", "data_loader",
                  "output_file_mapping"}

NoRaise == "none"

----------------------------------------------------------------------------
(* _validate_images *)

\* _validate_image where an array does not set self.input_mode
Mut_validate_image(data, ch) ==
    CASE data = None      -> [raised |-> NoRaise, image |-> NoImage, sets |-> Unset]
      [] data = "ndarray" -> [raised |-> NoRaise, sets |-> Unset,
                              image |-> [type |-> "ndarray", of |-> ch]]
      [] data = "missing" -> [raised |-> "FileNotFoundError", image |-> NoImage, sets |-> Unset]
      [] data = "badext"  -> [raised |-> "ValueError", image |-> NoImage, sets |-> Unset]
      [] data = "nifti"   -> [raised |-> NoRaise, sets |-> "NIFTI_FILE",
                              image |-> [type |-> "Path", of |-> ch]]

\* _validate_image: the value stored for one channel, or the exception raised.
\* A stored image is its Python type and the channel whose data it holds.
_validate_image(data, ch) ==
    CASE data = None      -> [raised |-> NoRaise, image |-> NoImage, sets |-> Unset]
      [] data = "ndarray" -> [raised |-> NoRaise, sets |-> "NUMPY",
                              image |-> [type |-> "ndarray", of |-> ch]]
      [] data = "missing" -> [raised |-> "FileNotFoundError", image |-> NoImage, sets |-> Unset]
      [] data = "badext"  -> [raised |-> "ValueError", image |-> NoImage, sets |-> Unset]
      [] data = "nifti"   -> [raised |-> NoRaise, sets |-> "NIFTI_FILE",
                              image |-> [type |-> "Path", of |-> ch]]

\* The list comprehension over [t1, t1c, t2, fla]: the first image that raises
\* ends it; self.input_mode keeps what the images before it have set.
RECURSIVE ValidateFrom(_, _, _, _)
ValidateFrom(imgs, i, acc, im) ==
    IF i > Len(imgs) THEN [raised |-> NoRaise, images |-> acc, input_mode |-> im]
    ELSE LET r == _validate_image(imgs[i], Channels[i]) IN
         IF r.raised # NoRaise
         THEN [raised |-> r.raised, images |-> NoImages, input_mode |-> im]
         ELSE ValidateFrom(imgs, i + 1, Append(acc, r.image),
                           IF r.sets = Unset THEN im ELSE r.sets)

NotNone(images) == SelectSeq(images, LAMBDA img : img # NoImage)

TypesOf(images) == {images[i].type : i \in 1..Len(images)}

\* _validate_images without the assertion that all images have one type
Mut_validate_images(imgs, im) ==
    LET v == ValidateFrom(imgs, 1, <<>>, im) IN
    IF v.raised # NoRaise THEN v
    ELSE IF Len(NotNone(v.images)) = 0
         THEN [raised |-> "AssertionError", images |-> NoImages, input_mode |-> v.input_mode]
    ELSE v

\* [raised, images, input_mode]: images is the returned list (if not raised),
\* input_mode the value self.input_mode is left with.
_validate_images(imgs, im) ==
    LET v == ValidateFrom(imgs, 1, <<>>, im) IN
    IF v.raised # NoRaise THEN v
    ELSE IF Len(NotNone(v.images)) = 0
         THEN [raised |-> "AssertionError", images |-> NoImages, input_mode |-> v.input_mode]
    ELSE IF Cardinality(TypesOf(NotNone(v.images))) # 1
         THEN [raised |-> "AssertionError", images |-> NoImages, input_mode |-> v.input_mode]
    ELSE v

----------------------------------------------------------------------------
(* _determine_inference_mode *)

Presence(images) == [i \in 1..Len(images) |-> images[i] # NoImage]

\* IMGS_TO_MODE_DICT.get(key, None)
DictGet(d, key) == IF key \in DOMAIN d THEN d[key] ELSE None

\* _determine_inference_mode without the check of the lookup's result
Mut_determine_inference_mode(images) ==
    [raised |-> NoRaise, mode |-> DictGet(IMGS_TO_MODE_DICT, Presence(images))]

_determine_inference_mode(images) ==
    LET mode == DictGet(IMGS_TO_MODE_DICT, Presence(images)) IN
    IF mode = None
    THEN [raised |-> "NotImplementedError", mode |-> None]
    ELSE [raised |-> NoRaise, mode |-> mode]

----------------------------------------------------------------------------
(* _get_not_none_files, _get_model *)

_get_not_none_files(images) == NotNone(images)

\* Reading an attribute the instance never got raises AttributeError.
HasAttr(name) == name \in InstanceAttrs

\* [raised, model]: the handle is the network built for the present channels
\* with the checkpoint of `mode` bound to it; ref tells handles apart.
_get_model(images, mode, present_weights, ref) ==
    IF mode \notin present_weights
    THEN \* the message of the NotImplementedError reads self.mode
         [raised |-> IF HasAttr("mode") THEN "NotImplementedError" ELSE "AttributeError",
          model |-> NoModel]
    ELSE [raised |-> NoRaise,
          model |-> [in_channels |-> Len(_get_not_none_files(images)),
                     weights |-> mode, ref |-> ref]]

----------------------------------------------------------------------------
(* Tensors.  A volume is a function on the voxel grid; only the two axes    *)
(* that test-time augmentation flips (dims 2 and 3 of a B,C,H,W,D batch)    *)
(* are kept.  Values are fixed-point, in thousandths.                       *)

VolSize == 2

Pos == (1..VolSize) \X (1..VolSize)

Classes == 1..2           \* model output channel 0 (whole) and 1 (enhancing)

\* torch.flip(t, dims=[d]) on every channel of t
FlipPos(p, d) == IF d = 2 THEN <<VolSize + 1 - p[1], p[2]>>
                 ELSE <<p[1], VolSize + 1 - p[2]>>

Flip(t, d) == [c \in DOMAIN t |-> [p \in Pos |-> t[c][FlipPos(p, d)]]]

\* outputs + output
TensorAdd(a, b) == [c \in DOMAIN a |-> [p \in Pos |-> a[c][p] + b[c][p]]]

RECURSIVE SumOver(_, _, _)
SumOver(x, p, i) == IF i = 0 THEN 0 ELSE x[i][p] + SumOver(x, p, i - 1)

\* The network behind a handle: an opaque function of the batch, fixed by the
\* checkpoint bound to the handle.  It depends on the voxel position, so it
\* does not commute with flips.
ModeBias(mode) ==
    CASE mode = "t1-o" -> 100 [] mode = "t1c-o" -> -200 [] mode = "fla-o" -> 300
      [] mode = "t1-t1c" -> -400 [] mode = "t1c-fla" -> 500
      [] mode = "t1-t1c-fla" -> -600 [] OTHER -> 700

Net(mdl, c, x, p) ==
    IF c = 1 THEN SumOver(x, p, Len(x)) + ModeBias(mdl.weights) - 1000 + 300 * p[1] + 100 * p[2]
    ELSE ModeBias(mdl.weights) + 900 - SumOver(x, p, Len(x)) - 200 * p[1] - 400 * p[2]

\* SlidingWindowInferer.__call__(inputs, network): the stitched raw output of
\* the network over the whole volume, one volume per class.
inferer(inputs, mdl) == [c \in Classes |-> [p \in Pos |-> Net(mdl, c, inputs, p)]]

\* RandGaussianNoised(prob=1.0, std=0.001): fresh noise on every voxel
AddNoise(x, noise) == [c \in DOMAIN x |-> [p \in Pos |-> x[c][p] + noise[p]]]

TTARounds == 4
FlipDims == <<2, 3>>

\* TTAFlips with the prediction flipped back along the other axis
RECURSIVE MutTTAFlips(_, _, _, _, _)
MutTTAFlips(acc, _img, mdl, k, j) ==
    IF j > Len(FlipDims) THEN acc
    ELSE LET dims == FlipDims[j]
             other == FlipDims[Len(FlipDims) + 1 - j]
             flip_pred == inferer(Flip(_img, dims), mdl)
             output == Flip(flip_pred, other)
         IN MutTTAFlips([outputs |-> TensorAdd(acc.outputs, output),
                         n |-> acc.n + 1,
                         runs |-> Append(acc.runs, [round |-> k, flip |-> dims, unflip |-> other])],
                        _img, mdl, k, j + 1)

RECURSIVE TTAFlips(_, _, _, _, _)
TTAFlips(acc, _img, mdl, k, j) ==
    IF j > Len(FlipDims) THEN acc
    ELSE LET dims == FlipDims[j]
             flip_pred == inferer(Flip(_img, dims), mdl)
             output == Flip(flip_pred, dims)
         IN TTAFlips([outputs |-> TensorAdd(acc.outputs, output),
                      n |-> acc.n + 1,
                      runs |-> Append(acc.runs, [round |-> k, flip |-> dims, unflip |-> dims])],
                     _img, mdl, k, j + 1)

RECURSIVE TTALoop(_, _, _, _, _)
TTALoop(acc, data, mdl, noise, k) ==
    IF k > TTARounds THEN acc
    ELSE LET _img == AddNoise(data, noise[k])
             output == inferer(_img, mdl)
             a1 == [outputs |-> TensorAdd(acc.outputs, output),
                    n |-> acc.n + 1,
                    runs |-> Append(acc.runs, [round |-> k, flip |-> 0, unflip |-> 0])]
         IN TTALoop(TTAFlips(a1, _img, mdl, k, 1), data, mdl, noise, k + 1)

\* _apply_test_time_augmentations with n starting at 0.0
Mut_apply_test_time_augmentations(outputs, data, mdl, noise) ==
    LET acc == TTALoop([outputs |-> outputs, n |-> 0,
                        runs |-> <<[round |-> 0, flip |-> 0, unflip |-> 0]>>],
                       data, mdl, noise, 1)
    IN [num |-> acc.outputs, den |-> acc.n, runs |-> acc.runs]

\* [num, den, runs]: the returned tensor is num / den; runs lists the engine
\* runs whose outputs were added, in order (round 0 is the run the caller did).
_apply_test_time_augmentations(outputs, data, mdl, noise) ==
    LET acc == TTALoop([outputs |-> outputs, n |-> 1,
                        runs |-> <<[round |-> 0, flip |-> 0, unflip |-> 0]>>],
                       data, mdl, noise, 1)
    IN [num |-> acc.outputs, den |-> acc.n, runs |-> acc.runs]

----------------------------------------------------------------------------
(* _post_process *)

\* sigmoid(x) >= threshold  <=>  x >= ln(threshold / (1 - threshold)); the
\* right-hand side in thousandths for the thresholds of the model.
Thresholds == {300, 500, 700}

Logit(threshold) ==
    CASE threshold = 300 -> -847 [] threshold = 500 -> 0 [] threshold = 700 -> 847

\* Binarize without the sigmoid: the raw value is compared with the threshold
MutBinarize(num, den, threshold) == IF num >= threshold * den THEN 1 ELSE 0

\* (x.sigmoid() >= threshold).astype(np.uint8) for x = num / den
Binarize(num, den, threshold) == IF num >= Logit(threshold) * den THEN 1 ELSE 0

\* MergeSeg with the enhancing label written only inside the whole-lesion mask
MutMergeSeg(whole_metastasis, enhancing_metastasis) ==
    [p \in Pos |-> IF whole_metastasis[p] = 1 /\ enhancing_metastasis[p] = 1 THEN 2
                   ELSE whole_metastasis[p]]

\* MergeSeg as the sum of the two masks
MutMergeSegSum(whole_metastasis, enhancing_metastasis) ==
    [p \in Pos |-> whole_metastasis[p] + enhancing_metastasis[p]]

\* final_seg = whole.copy(); final_seg[whole == 1] = 1; final_seg[enh == 1] = 2
MergeSeg(whole_metastasis, enhancing_metastasis) ==
    LET copy == whole_metastasis
        edema == [p \in Pos |-> IF whole_metastasis[p] = 1 THEN 1 ELSE copy[p]]
    IN [p \in Pos |-> IF enhancing_metastasis[p] = 1 THEN 2 ELSE edema[p]]

_post_process(outputs, threshold) ==
    LET binarized_outputs ==
            [c \in Classes |-> [p \in Pos |-> Binarize(outputs.num[c][p], outputs.den, threshold)]]
        whole_metastasis == binarized_outputs[1]
        enhancing_metastasis == binarized_outputs[2]
    IN [segmentation |-> MergeSeg(whole_metastasis, enhancing_metastasis),
        whole_network |-> binarized_outputs[1],
        metastasis_network |-> binarized_outputs[2]]

----------------------------------------------------------------------------
(* _setup_logger, _get_data_loader, _save_as_nifti *)

\* Path(segmentation_file).with_suffix(".log") if segmentation_file else "."
LogPath(segmentation_file) ==
    IF segmentation_file # None THEN WithSuffixLog(segmentation_file) ELSE "."

\* os.makedirs(os.path.dirname(path), exist_ok=True): os.makedirs("") raises
MakeDirs(path) == IF Dirname(path) = "" THEN "FileNotFoundError" ELSE NoRaise

\* [raised, stream]: log_file is never None when infer calls it
_setup_logger(log_path) ==
    IF MakeDirs(log_path) # NoRaise
    THEN [raised |-> MakeDirs(log_path), stream |-> None]
    ELSE [raised |-> NoRaise, stream |-> log_path]

\* _get_data_loader with EnsureChannelFirstd for up to two images
Mut_get_data_loader(images, im) ==
    [LoadImageD |-> (im = "NIFTI_FILE"),
     EnsureChannelFirstd |-> (Len(_get_not_none_files(images)) <= 2),
     images |-> _get_not_none_files(images)]

\* The transforms that depend on the call, and the images handed to them.
_get_data_loader(images, im) ==
    [LoadImageD |-> (im = "NIFTI_FILE"),
     EnsureChannelFirstd |-> (Len(_get_not_none_files(images)) = 1),
     images |-> _get_not_none_files(images)]

\* The normalised content of one channel's image, the same for a file and an array.
ImageData(img) ==
    LET base == CASE img.of = "t1" -> 100 [] img.of = "t1c" -> 300
                  [] img.of = "t2" -> 500 [] OTHER -> 700
    IN [p \in Pos |-> base + 100 * p[1] - 50 * p[2]]

\* data["images"] of the single batch the loader yields
Batch(dl) == [i \in 1..Len(dl.images) |-> ImageData(dl.images[i])]

DefaultSegPath == "segmentation.nii.gz"

OutputOrder == <<"segmentation", "whole_network", "metastasis_network">>

\* The affine and header written: those of the reference file, named by its
\* channel, or np.eye(4) and no header after array input.
Reference(images, im) ==
    IF im = "NIFTI_FILE" THEN _get_not_none_files(images)[1].of ELSE "eye"

\* The loop over postproc_data.items(): [raised, written]
RECURSIVE SaveFrom(_, _, _, _, _)
SaveFrom(keys, i, mapping, ref, written) ==
    IF i > Len(keys) THEN [raised |-> NoRaise, written |-> written]
    ELSE LET output_file == mapping[keys[i]] IN
         IF output_file = None THEN SaveFrom(keys, i + 1, mapping, ref, written)
         ELSE IF MakeDirs(output_file) # NoRaise
              THEN [raised |-> MakeDirs(output_file), written |-> written]
         ELSE SaveFrom(keys, i + 1, mapping, ref,
                       written \cup {[key |-> keys[i], file |-> output_file, geometry |-> ref]})

_save_as_nifti(keys, images, im, mapping) ==
    SaveFrom(keys, 1, mapping, Reference(images, im), {})

----------------------------------------------------------------------------
(* _sliding_window_inference *)

\* dict.pop(key)
Pop(d, key) == [k \in DOMAIN d \ {key} |-> d[k]]

\* The empty dict
NoDict == [k \in {} |-> 0]

FirstRun == [round |-> 0, flip |-> 0, unflip |-> 0]

\* NumpyOutput with the two flags taken for each other
MutNumpyOutput(postprocessed_data, cfg) ==
    LET d1 == IF ~cfg.include_metastasis_network_in_numpy_output_mode
              THEN Pop(postprocessed_data, "whole_network") ELSE postprocessed_data
    IN IF ~cfg.include_whole_network_in_numpy_output_mode
       THEN Pop(d1, "metastasis_network") ELSE d1

\* The postprocessed data once the masks that were not asked for are removed
NumpyOutput(postprocessed_data, cfg) ==
    LET d1 == IF ~cfg.include_whole_network_in_numpy_output_mode
              THEN Pop(postprocessed_data, "whole_network") ELSE postprocessed_data
    IN IF ~cfg.include_metastasis_network_in_numpy_output_mode
       THEN Pop(d1, "metastasis_network") ELSE d1

\* [raised, fwd_model, runs, returns, returned, written]: what the single
\* batch of the loader goes through.  A network built for another number of
\* channels fails in its first convolution.
_sliding_window_inference(mdl, dl, cfg, images, im, mapping, noise) ==
    IF mdl = NoModel
    THEN [raised |-> "AttributeError", fwd_model |-> NoModel, runs |-> <<>>,
          returns |-> Unset, returned |-> NoDict, written |-> {}]
    ELSE LET inputs == Batch(dl) IN
    IF Len(inputs) # mdl.in_channels
    THEN [raised |-> "RuntimeError", fwd_model |-> mdl, runs |-> <<FirstRun>>,
          returns |-> Unset, returned |-> NoDict, written |-> {}]
    ELSE LET first == inferer(inputs, mdl)
             tta == _apply_test_time_augmentations(first, inputs, mdl, noise)
             outputs == IF cfg.tta THEN [num |-> tta.num, den |-> tta.den]
                        ELSE [num |-> first, den |-> 1]
             runs == IF cfg.tta THEN tta.runs ELSE <<FirstRun>>
             postprocessed_data == _post_process(outputs, cfg.threshold)
         IN IF cfg.output_mode = "NUMPY"
            THEN [raised |-> NoRaise, fwd_model |-> mdl, runs |-> runs,
                  returns |-> "dict",
                  returned |-> NumpyOutput(postprocessed_data, cfg), written |-> {}]
            ELSE LET sv == _save_as_nifti(OutputOrder, images, im, mapping) IN
                 [raised |-> sv.raised, fwd_model |-> mdl, runs |-> runs,
                  returns |-> IF sv.raised = NoRaise THEN None ELSE Unset,
                  returned |-> NoDict, written |-> sv.written]

----------------------------------------------------------------------------
(* infer.  s is the instance (its attributes), f the frame of the call:     *)
(* arguments, locals, position, and what the call has done so far.  Every   *)
(* step returns the instance and the frame it leaves.                       *)

NewFrame ==
    [pc |-> "idle", images |-> <<>>, segmentation_file |-> None,
     whole_network_file |-> None, metastasis_network_file |-> None,
     prev_mode |-> None, raised |-> NoRaise, site |-> None,
     trace |-> <<>>, model_before |-> NoModel, mapping_before |-> NoMapping,
     load_attempts |-> 0, loaded |-> 0,
     fwd_model |-> NoModel, runs |-> <<>>,
     warned |-> FALSE, returns |-> Unset, returned |-> NoDict, written |-> {}]

Did(f, step, next) == [f EXCEPT !.pc = next, !.trace = Append(@, step)]

Raised(f, kind, step) ==
    [f EXCEPT !.pc = "raised", !.raised = kind, !.site = step, !.trace = Append(@, step)]

\* self.log = self._setup_logger(log_file=log_path)
StepSetupLogger(s, f) ==
    LET r == _setup_logger(LogPath(f.segmentation_file)) IN
    IF r.raised # NoRaise
    THEN [s |-> s, f |-> Raised(f, r.raised, "_setup_logger")]
    ELSE [s |-> [s EXCEPT !.log_file = r.stream],
          f |-> Did(f, "_setup_logger", "validate")]

\* StepValidateImages where self.validated_images, once assigned, is kept
MutStepValidateImages(s, f) ==
    LET r == _validate_images(f.images, s.input_mode)
        g == [f EXCEPT !.prev_mode = s.inference_mode]
    IN IF r.raised # NoRaise
       THEN [s |-> [s EXCEPT !.input_mode = r.input_mode],
             f |-> Raised(g, r.raised, "_validate_images")]
       ELSE [s |-> [s EXCEPT !.input_mode = r.input_mode,
                             !.validated_images = IF s.validated_images = NoImages
                                                  THEN r.images ELSE s.validated_images],
             f |-> Did(g, "_validate_images", "resolve")]

\* prev_mode = self.inference_mode
\* self.validated_images = self._validate_images(t1=t1, t1c=t1c, t2=t2, fla=fla)
StepValidateImages(s, f) ==
    LET r == _validate_images(f.images, s.input_mode)
        g == [f EXCEPT !.prev_mode = s.inference_mode]
    IN IF r.raised # NoRaise
       THEN [s |-> [s EXCEPT !.input_mode = r.input_mode],
             f |-> Raised(g, r.raised, "_validate_images")]
       ELSE [s |-> [s EXCEPT !.input_mode = r.input_mode, !.validated_images = r.images],
             f |-> Did(g, "_validate_images", "resolve")]

\* self.inference_mode = self._determine_inference_mode(images=self.validated_images)
StepDetermineInferenceMode(s, f) ==
    LET r == _determine_inference_mode(s.validated_images) IN
    IF r.raised # NoRaise
    THEN [s |-> s, f |-> Raised(f, r.raised, "_determine_inference_mode")]
    ELSE [s |-> [s EXCEPT !.inference_mode = r.mode],
          f |-> Did(f, "_determine_inference_mode", "model")]

\* if prev_mode != self.inference_mode: self.model = self._get_model()
StepLoadModel(s, f, present_weights) ==
    IF f.prev_mode # s.inference_mode
    THEN LET r == _get_model(s.validated_images, s.inference_mode, present_weights,
                             s.loads + 1) IN
         IF r.raised # NoRaise
         THEN [s |-> s,
               f |-> [Raised(f, r.raised, "_get_model") EXCEPT !.load_attempts = @ + 1]]
         ELSE [s |-> [s EXCEPT !.model = r.model, !.loads = @ + 1],
               f |-> [Did(f, "_get_model", "data_loader") EXCEPT !.load_attempts = @ + 1,
                                                                  !.loaded = @ + 1]]
    ELSE [s |-> s, f |-> [f EXCEPT !.pc = "data_loader"]]

\* self.data_loader = self._get_data_loader()
StepGetDataLoader(s, f) ==
    [s |-> [s EXCEPT !.data_loader = _get_data_loader(s.validated_images, s.input_mode)],
     f |-> Did(f, "_get_data_loader", "mapping")]

\* StepOutputMapping where a mask destination that is not passed keeps the
\* destination the mapping held before
MutStepOutputMapping(s, f, cfg) ==
    IF cfg.output_mode = "NIFTI_FILE"
    THEN [s |-> [s EXCEPT !.output_file_mapping =
                     [segmentation |-> IF f.segmentation_file # None
                                       THEN f.segmentation_file ELSE DefaultSegPath,
                      whole_network |-> IF f.whole_network_file = None
                                           /\ s.output_file_mapping.whole_network # Unset
                                        THEN s.output_file_mapping.whole_network
                                        ELSE f.whole_network_file,
                      metastasis_network |-> f.metastasis_network_file]],
          f |-> [f EXCEPT !.pc = "inference", !.warned = (f.segmentation_file = None)]]
    ELSE [s |-> s, f |-> [f EXCEPT !.pc = "inference"]]

\* if self.config.output_mode == DataMode.NIFTI_FILE: self.output_file_mapping = {...}
StepOutputMapping(s, f, cfg) ==
    IF cfg.output_mode = "NIFTI_FILE"
    THEN [s |-> [s EXCEPT !.output_file_mapping =
                     [segmentation |-> IF f.segmentation_file # None
                                       THEN f.segmentation_file ELSE DefaultSegPath,
                      whole_network |-> f.whole_network_file,
                      metastasis_network |-> f.metastasis_network_file]],
          f |-> [f EXCEPT !.pc = "inference", !.warned = (f.segmentation_file = None)]]
    ELSE [s |-> s, f |-> [f EXCEPT !.pc = "inference"]]

\* return self._sliding_window_inference()
StepSlidingWindowInference(s, f, cfg, noise) ==
    LET r == _sliding_window_inference(s.model, s.data_loader, cfg, s.validated_images,
                                       s.input_mode, s.output_file_mapping, noise)
        g == [f EXCEPT !.fwd_model = r.fwd_model, !.runs = r.runs,
                       !.returns = r.returns, !.returned = r.returned,
                       !.written = r.written]
    IN [s |-> s,
        f |-> IF r.raised # NoRaise
              THEN Raised(g, r.raised, "_sliding_window_inference")
              ELSE Did(g, "_sliding_window_inference", "done")]

Step(s, f, cfg, present_weights, noise) ==
    CASE f.pc = "setup_logger" -> StepSetupLogger(s, f)
      [] f.pc = "validate"     -> StepValidateImages(s, f)
      [] f.pc = "resolve"      -> StepDetermineInferenceMode(s, f)
      [] f.pc = "model"        -> StepLoadModel(s, f, present_weights)
      [] f.pc = "data_loader"  -> StepGetDataLoader(s, f)
      [] f.pc = "mapping"      -> StepOutputMapping(s, f, cfg)
      [] f.pc = "inference"    -> StepSlidingWindowInference(s, f, cfg, noise)

RECURSIVE RunFrom(_, _, _, _, _)
RunFrom(s, f, cfg, present_weights, noise) ==
    IF f.pc \in {"done", "raised"} THEN [s |-> s, f |-> f]
    ELSE LET n == Step(s, f, cfg, present_weights, noise)
         IN RunFrom(n.s, n.f, cfg, present_weights, noise)

\* One whole call: [s, f] when it has returned or raised
infer(s, args, cfg, present_weights, noise) ==
    RunFrom(s,
            [NewFrame EXCEPT !.pc = "setup_logger",
                             !.model_before = s.model,
                             !.mapping_before = s.output_file_mapping,
                             !.images = <<args.t1, args.t1c, args.t2, args.fla>>,
                             !.segmentation_file = args.segmentation_file,
                             !.whole_network_file = args.whole_network_file,
                             !.metastasis_network_file = args.metastasis_network_file],
            cfg, present_weights, noise)

----------------------------------------------------------------------------
(* The instance and the calls made on it *)

\* Arguments a call is made with
T1Args == {None, "nifti", "ndarray"}
T1CArgs == {None, "nifti", "missing", "badext"}
T2Args == {None, "nifti"}
FLAArgs == {None, "nifti"}

\* Mask destinations come with a segmentation destination
DestArgs ==
    {[segmentation_file |-> None, whole_network_file |-> None,
      metastasis_network_file |-> None]}
    \cup
    {[segmentation_file |-> SegPath, whole_network_file |-> w,
      metastasis_network_file |-> m] : w \in {None, WholePath}, m \in {None, MetPath}}

CallArgs ==
    {[t1 |-> a, t1c |-> b, t2 |-> c, fla |-> d,
      segmentation_file |-> o.segmentation_file,
      whole_network_file |-> o.whole_network_file,
      metastasis_network_file |-> o.metastasis_network_file] :
        a \in T1Args, b \in T1CArgs, c \in T2Args, d \in FLAArgs, o \in DestArgs}

\* AuroraInfererConfig values the instance is built with
Configs ==
    {[tta |-> t, threshold |-> 500, model_selection |-> "best",
      output_mode |-> "NIFTI_FILE",
      include_whole_network_in_numpy_output_mode |-> FALSE,
      include_metastasis_network_in_numpy_output_mode |-> FALSE] : t \in BOOLEAN}
    \cup
    {[tta |-> FALSE, threshold |-> 500, model_selection |-> "best",
      output_mode |-> "NUMPY",
      include_whole_network_in_numpy_output_mode |-> w,
      include_metastasis_network_in_numpy_output_mode |-> m] : w, m \in BOOLEAN}

\* The modes whose checkpoint is missing from the weight folder
MissingWeights == {"t1c-fla"}

ZeroNoise == [k \in 1..TTARounds |-> [p \in Pos |-> 0]]
SomeNoise == [k \in 1..TTARounds |-> [p \in Pos |-> IF (k + p[1]) % 2 = 0 THEN 1 ELSE -1]]
NoiseSchedules == {ZeroNoise, SomeNoise}

NoFn == [op |-> "off"]

\* No overlapping calls are under way
NoThreads == [on |-> FALSE]

\* The instance as a record of its attributes
Self ==
    [validated_images |-> validated_images, inference_mode |-> inference_mode,
     input_mode |-> input_mode, model |-> model, data_loader |-> data_loader,
     output_file_mapping |-> output_file_mapping, log_file |-> log_file,
     loads |-> loads]

\* AuroraInferer.__init__
Init ==
    /\ config \in Configs
    /\ weights = Modes \ MissingWeights
    /\ validated_images = NoImages
    /\ inference_mode = None
    /\ input_mode = Unset
    /\ model = NoModel
    /\ data_loader = NoLoader
    /\ output_file_mapping = NoMapping
    /\ log_file = None
    /\ loads = 0
    /\ calls = 0
    /\ frame = NewFrame
    /\ fn = NoFn
    /\ threads = NoThreads

\* A call of infer on the idle instance, run until it returns or raises
Infer ==
    /\ frame.pc = "idle"
    /\ calls < MaxCalls
    /\ \E args \in CallArgs, noise \in (IF config.tta THEN NoiseSchedules ELSE {ZeroNoise}) :
         \E r \in {infer(Self, args, config, weights, noise)} :
         /\ validated_images' = r.s.validated_images
         /\ inference_mode' = r.s.inference_mode
         /\ input_mode' = r.s.input_mode
         /\ model' = r.s.model
         /\ data_loader' = r.s.data_loader
         /\ output_file_mapping' = r.s.output_file_mapping
         /\ log_file' = r.s.log_file
         /\ loads' = r.s.loads
         /\ frame' = r.f
    /\ calls' = calls + 1
    /\ UNCHANGED <<config, weights, fn, threads>>

\* The caller takes the result or the exception; the frame is gone
Return ==
    /\ frame.pc \in {"done", "raised"}
    /\ frame' = NewFrame
    /\ UNCHANGED <<config, weights, self_vars, calls, fn, threads>>

Next ==
    \/ Infer
    \/ Return

Spec == Init /\ [][Next]_vars

----------------------------------------------------------------------------
(* The pure functions of the pipeline, applied to drawn inputs *)

\* Lists _validate_images can hand over, and the list of four absent images
ImageLists ==
    {<<a, b, c, d>> :
        a \in {NoImage, [type |-> "Path", of |-> "t1"], [type |-> "ndarray", of |-> "t1"]},
        b \in {NoImage, [type |-> "Path", of |-> "t1c"], [type |-> "ndarray", of |-> "t1c"]},
        c \in {NoImage, [type |-> "Path", of |-> "t2"], [type |-> "ndarray", of |-> "t2"]},
        d \in {NoImage, [type |-> "Path", of |-> "fla"], [type |-> "ndarray", of |-> "fla"]}}

\* Raw network outputs, in thousandths
RawValues == {-900, 300, 600, 900}

\* A raw output volume per class: one value at voxel q, another elsewhere
RawOutputs ==
    {[c \in Classes |-> [p \in Pos |-> IF p = q THEN at[c] ELSE bg[c]]] :
        q \in Pos, at \in [Classes -> RawValues], bg \in [Classes -> RawValues]}

\* Batches of one or two channels and handles built for them
TTAInputs ==
    {[inputs |-> Batch([images |-> imgs]),
      mdl |-> [in_channels |-> Len(imgs), weights |-> m, ref |-> 1],
      noise |-> nz] :
        imgs \in {<<[type |-> "Path", of |-> "t1"]>>,
                  <<[type |-> "Path", of |-> "t1c"], [type |-> "Path", of |-> "fla"]>>},
        m \in {"t1-o", "t1c-fla"},
        nz \in NoiseSchedules}

FnInputs ==
    {[op |-> "_determine_inference_mode", arg |-> images, done |-> FALSE, out |-> NoDict] :
        images \in ImageLists}
    \cup
    {[op |-> "_post_process", arg |-> [outputs |-> [num |-> o, den |-> 1], threshold |-> t],
      done |-> FALSE, out |-> NoDict] : o \in RawOutputs, t \in Thresholds}
    \cup
    {[op |-> "_apply_test_time_augmentations", arg |-> a, done |-> FALSE, out |-> NoDict] :
        a \in TTAInputs}

InitFn ==
    /\ config \in {c \in Configs : c.tta /\ c.output_mode = "NIFTI_FILE"}
    /\ weights = Modes \ MissingWeights
    /\ validated_images = NoImages
    /\ inference_mode = None
    /\ input_mode = Unset
    /\ model = NoModel
    /\ data_loader = NoLoader
    /\ output_file_mapping = NoMapping
    /\ log_file = None
    /\ loads = 0
    /\ calls = 0
    /\ frame = NewFrame
    /\ fn \in FnInputs
    /\ threads = NoThreads

Apply(op, out) ==
    /\ fn.op = op
    /\ ~fn.done
    /\ fn' = [fn EXCEPT !.done = TRUE, !.out = out]
    /\ UNCHANGED <<config, weights, self_vars, calls, frame, threads>>

ApplyDetermineInferenceMode ==
    Apply("_determine_inference_mode", _determine_inference_mode(fn.arg))

ApplyPostProcess ==
    Apply("_post_process", _post_process(fn.arg.outputs, fn.arg.threshold))

\* outputs = inferer(inputs, self.model), then the augmentations on top of it
ApplyTestTimeAugmentations ==
    Apply("_apply_test_time_augmentations",
          _apply_test_time_augmentations(inferer(fn.arg.inputs, fn.arg.mdl),
                                         fn.arg.inputs, fn.arg.mdl, fn.arg.noise))

NextFn ==
    \/ ApplyDetermineInferenceMode
    \/ ApplyPostProcess
    \/ ApplyTestTimeAugmentations

SpecFn == InitFn /\ [][NextFn]_vars

----------------------------------------------------------------------------
(* Two calls of infer on one instance whose steps may interleave.  A step   *)
(* is one statement of infer; the attributes of the instance are shared.    *)

ThreadIds == 1..2

\* The calls: file inputs on T1, T1C and FLAIR, one segmentation destination
ConcArgs ==
    {a \in CallArgs : /\ a.t1 \in {None, "nifti"}
                      /\ a.t1c \in {None, "nifti"}
                      /\ a.t2 = None
                      /\ a.segmentation_file = SegPath
                      /\ a.whole_network_file = None
                      /\ a.metastasis_network_file = None}

ConcConfigs == {c \in Configs : ~c.tta /\ c.output_mode = "NIFTI_FILE"}

\* The instance after __init__
FreshSelf ==
    [validated_images |-> NoImages, inference_mode |-> None, input_mode |-> Unset,
     model |-> NoModel, data_loader |-> NoLoader, output_file_mapping |-> NoMapping,
     log_file |-> None, loads |-> 0]

\* The instance the two calls find: fresh, or as one earlier call left it
PriorSelves ==
    {FreshSelf} \cup
    {infer(FreshSelf, a, c, Modes \ MissingWeights, ZeroNoise).s : a \in ConcArgs, c \in ConcConfigs}

\* The frame of a call that has been made and has not run a statement yet
EnteredFrame(args) ==
    [NewFrame EXCEPT !.pc = "setup_logger",
                     !.images = <<args.t1, args.t1c, args.t2, args.fla>>,
                     !.segmentation_file = args.segmentation_file,
                     !.whole_network_file = args.whole_network_file,
                     !.metastasis_network_file = args.metastasis_network_file]

\* The attributes a call assigns and reads back in later steps
SharedAttrs == {"validated_images", "inference_mode", "model", "data_loader"}

InitConc ==
    /\ config \in ConcConfigs
    /\ weights = Modes \ MissingWeights
    /\ \E s \in PriorSelves :
          /\ validated_images = s.validated_images
          /\ inference_mode = s.inference_mode
          /\ input_mode = s.input_mode
          /\ model = s.model
          /\ data_loader = s.data_loader
          /\ output_file_mapping = s.output_file_mapping
          /\ log_file = s.log_file
          /\ loads = s.loads
    /\ calls = 0
    /\ frame = NewFrame
    /\ fn = NoFn
    /\ \E a \in ConcArgs, b \in ConcArgs :
          /\ <<a.t1, a.t1c, a.t2, a.fla>> # <<b.t1, b.t1c, b.t2, b.fla>>
          /\ threads = [on |-> TRUE,
                        f |-> <<EnteredFrame(a), EnteredFrame(b)>>,
                        writer |-> [x \in SharedAttrs |-> 0],
                        foreign |-> <<{}, {}>>,
                        overlapped |-> FALSE]

\* The shared attributes the statement at f.pc reads, given the frame g it
\* leaves: the mode and the images in the model step, the images when the
\* loader is built, the model and the loader in the forward pass and the
\* images again when the outputs are saved.
Reads(s, f, g) ==
    CASE f.pc = "model" ->
            {"inference_mode"} \cup
            (IF f.prev_mode # s.inference_mode THEN {"validated_images"} ELSE {})
      [] f.pc = "data_loader" -> {"validated_images"}
      [] f.pc = "inference" ->
            {"model", "data_loader"} \cup
            (IF g.runs # <<>> /\ g.raised # "RuntimeError" THEN {"validated_images"} ELSE {})
      [] OTHER -> {}

InCall(f) == f.trace # <<>> /\ f.pc \notin {"done", "raised"}

\* Call t runs its next statement
ThreadStep(t) ==
    /\ threads.on
    /\ threads.f[t].pc \notin {"done", "raised"}
    /\ \E n \in {Step(Self, threads.f[t], config, weights, ZeroNoise)} :
         /\ validated_images' = n.s.validated_images
         /\ inference_mode' = n.s.inference_mode
         /\ input_mode' = n.s.input_mode
         /\ model' = n.s.model
         /\ data_loader' = n.s.data_loader
         /\ output_file_mapping' = n.s.output_file_mapping
         /\ log_file' = n.s.log_file
         /\ loads' = n.s.loads
         /\ threads' =
              [threads EXCEPT
                 !.f[t] = n.f,
                 !.writer = [x \in SharedAttrs |-> IF n.s[x] # Self[x] THEN t ELSE @[x]],
                 !.foreign[t] = @ \cup {x \in Reads(Self, threads.f[t], n.f) :
                                           threads.writer[x] = 3 - t},
                 !.overlapped = @ \/ InCall(threads.f[3 - t])]
    /\ UNCHANGED <<config, weights, calls, frame, fn>>

NextConc == \E t \in ThreadIds : ThreadStep(t)

SpecConc == InitConc /\ [][NextConc]_vars

----------------------------------------------------------------------------
(* An instance on which every call made so far has succeeded *)

InferOk == Infer /\ frame'.pc = "done"

NextOk ==
    \/ InferOk
    \/ Return

SpecOk == Init /\ [][NextOk]_vars

----------------------------------------------------------------------------
(* Properties *)

\* The last call has returned or raised and its frame is still there
Ended == frame.pc \in {"done", "raised"}

Reached(step) == \E i \in 1..Len(frame.trace) : frame.trace[i] = step

\* The last call got a mode out of mode resolution (it is self.inference_mode)
Resolved == Reached("_determine_inference_mode") /\ frame.site # "_determine_inference_mode"

Passed(kind) == {i \in 1..Len(frame.images) : frame.images[i] = kind}

ZeroChannels == Passed(None) = 1..Len(frame.images)

MixedKinds == Passed("ndarray") # {} /\ (Passed("nifti") \cup Passed("missing") \cup Passed("badext")) # {}

InvalidInputs == ZeroChannels \/ MixedKinds \/ Passed("missing") # {} \/ Passed("badext") # {}

ValidationErrors == {"FileNotFoundError", "ValueError", "AssertionError"}

\* C1: a call that resolves to the mode whose weights the cached model holds
\* performs no weight load and leaves the cached model as it was; a call that
\* resolves to another mode, or the first on a fresh instance, performs
\* exactly one weight load.
C1_ModelReuse ==
    (Ended /\ Resolved) =>
        IF frame.model_before # NoModel /\ frame.model_before.weights = inference_mode
        THEN frame.load_attempts = 0 /\ model = frame.model_before
        ELSE frame.load_attempts = 1

\* C2: whenever a forward pass runs in a call, the model it runs on holds the
\* weights of the mode resolved in that call and takes as many channels as
\* the call has present.
C2_ForwardModelMatchesMode ==
    (Ended /\ frame.runs # <<>>) =>
        /\ frame.fwd_model.weights = inference_mode
        /\ frame.fwd_model.in_channels = Len(_get_not_none_files(validated_images))

FnDone(op) == fn.op = op /\ fn.done

PresenceKey(images) == <<images[1].type # "NoneType", images[2].type # "NoneType",
                         images[3].type # "NoneType", images[4].type # "NoneType">>

\* C3: mode resolution returns the table's mode for every presence tuple in
\* the lookup table, and for every tuple not in it raises the
\* unsupported-combination error and returns no mode.
C3_ModeResolution ==
    FnDone("_determine_inference_mode") =>
        LET key == PresenceKey(fn.arg) IN
        IF key \in DOMAIN IMGS_TO_MODE_DICT
        THEN fn.out = [raised |-> NoRaise, mode |-> IMGS_TO_MODE_DICT[key]]
        ELSE fn.out = [raised |-> "NotImplementedError", mode |-> None]

\* Resolution was applied to a list with T2 alone and raised
C3_Witness ==
    /\ FnDone("_determine_inference_mode")
    /\ PresenceKey(fn.arg) = <<FALSE, FALSE, TRUE, FALSE>>
    /\ fn.out.raised = "NotImplementedError"

\* C4: with zero channels, or with files and arrays mixed, infer raises an
\* input-validation error, raised by the validation of the inputs before
\* mode resolution, before any weight load and before any forward pass.
C4_ValidationErrorFirst ==
    (Ended /\ (ZeroChannels \/ MixedKinds)) =>
        /\ frame.site = "_validate_images"
        /\ frame.raised \in ValidationErrors
        /\ ~Reached("_determine_inference_mode")
        /\ frame.load_attempts = 0
        /\ frame.runs = <<>>

\* C5: a call whose inputs do not pass validation (a missing file, a wrong
\* extension, mixed kinds, zero channels) raises and neither writes any of
\* the output destinations nor returns a result, whatever calls came before.
C5_NoOutputOnInvalidInput ==
    (Ended /\ InvalidInputs) =>
        /\ frame.pc = "raised"
        /\ frame.written = {}
        /\ frame.returns = Unset

\* Validation failed on an instance that an earlier call left with a model
\* and with output destinations
C5_Witness ==
    /\ Ended
    /\ frame.site = "_validate_images"
    /\ model # NoModel
    /\ output_file_mapping # NoMapping
    /\ output_file_mapping.whole_network # None

\* The kind the raise statement for absent weights names
WeightsNotFound == "NotImplementedError"

\* C6: when the weights of the resolved mode are absent, the load fails with
\* the weights-not-found error and no forward pass runs in that call.
C6_WeightsNotFound ==
    (Ended /\ Resolved /\ frame.load_attempts = 1 /\ inference_mode \notin weights) =>
        /\ frame.site = "_get_model"
        /\ frame.raised = WeightsNotFound
        /\ frame.runs = <<>>

RECURSIVE ExpectedRounds(_, _, _, _)
ExpectedRounds(a, c, p, k) ==
    IF k = 0 THEN 0
    ELSE LET noisy == AddNoise(a.inputs, a.noise[k]) IN
         inferer(noisy, a.mdl)[c][p]
         + inferer(Flip(noisy, 2), a.mdl)[c][FlipPos(p, 2)]
         + inferer(Flip(noisy, 3), a.mdl)[c][FlipPos(p, 3)]
         + ExpectedRounds(a, c, p, k - 1)

ExpectedRuns ==
    [i \in 1..13 |->
        IF i = 1 THEN [round |-> 0, flip |-> 0, unflip |-> 0]
        ELSE LET k == (i - 2) \div 3 + 1
                 d == CASE (i - 2) % 3 = 0 -> 0 [] (i - 2) % 3 = 1 -> 2 [] OTHER -> 3
             IN [round |-> k, flip |-> d, unflip |-> d]]

\* C7: with tta the engine runs exactly 13 times (once on the unmodified
\* volume, then in each of 4 rounds once on the noisy volume and once per
\* flip), the accumulator is the sum of the 13 outputs, each taken once with
\* weight 1, and the result is the accumulator divided by 13.
C7_ThirteenRuns ==
    FnDone("_apply_test_time_augmentations") =>
        /\ Len(fn.out.runs) = 13
        /\ fn.out.runs = ExpectedRuns
        /\ fn.out.den = 13
        /\ \A c \in Classes, p \in Pos :
              fn.out.num[c][p] = inferer(fn.arg.inputs, fn.arg.mdl)[c][p]
                                 + ExpectedRounds(fn.arg, c, p, 4)

\* The ensemble was computed on a two-channel batch with noise
C7_Witness ==
    /\ FnDone("_apply_test_time_augmentations")
    /\ Len(fn.arg.inputs) = 2
    /\ fn.arg.noise = SomeNoise
    /\ fn.out.den = 13

\* C8: at every voxel where the enhancing mask is 1 the merged segmentation
\* is 2, also where the whole-lesion mask is 0.
C8_EnhancingWins ==
    FnDone("_post_process") =>
        \A p \in Pos : fn.out.metastasis_network[p] = 1 => fn.out.segmentation[p] = 2

\* A voxel with enhancing 1 and whole 0 got label 2
C8_Witness ==
    /\ FnDone("_post_process")
    /\ \E p \in Pos : /\ fn.out.metastasis_network[p] = 1
                      /\ fn.out.whole_network[p] = 0
                      /\ fn.out.segmentation[p] = 2

\* The channel whose geometry the priority T1C, FLAIR, T1 picks
PriorityReference ==
    IF frame.images[2] = "nifti" THEN "t1c"
    ELSE IF frame.images[4] = "nifti" THEN "fla"
    ELSE "t1"

\* C9: in file output mode with file inputs every written volume carries the
\* affine and header of T1C if present, else of FLAIR if present, else of T1.
C9_ReferencePriority ==
    (Ended /\ config.output_mode = "NIFTI_FILE" /\ Passed("ndarray") = {}) =>
        \A w \in frame.written : w.geometry = PriorityReference

\* C10: in array output mode a successful call returns a mapping that holds
\* the segmentation, the whole mask iff its flag is set and the enhancing
\* mask iff its flag is set, and writes no output volume.
C10_ArrayModeMapping ==
    (frame.pc = "done" /\ config.output_mode = "NUMPY") =>
        /\ frame.returns = "dict"
        /\ "segmentation" \in DOMAIN frame.returned
        /\ ("whole_network" \in DOMAIN frame.returned)
             <=> config.include_whole_network_in_numpy_output_mode
        /\ ("metastasis_network" \in DOMAIN frame.returned)
             <=> config.include_metastasis_network_in_numpy_output_mode
        /\ frame.written = {}

\* A call returned the segmentation and the whole mask, not the enhancing mask
C10_Witness ==
    /\ frame.pc = "done"
    /\ config.output_mode = "NUMPY"
    /\ DOMAIN frame.returned = {"segmentation", "whole_network"}

\* The presence tuple of the last call's arguments
ArgPresence == [i \in 1..Len(frame.images) |-> frame.images[i] # None]

\* The last call's inputs pass validation, its combination of channels is
\* supported and the weights of its mode are there
ValidCall ==
    /\ ~InvalidInputs
    /\ ArgPresence \in DOMAIN IMGS_TO_MODE_DICT
    /\ IMGS_TO_MODE_DICT[ArgPresence] \in weights

FilesWritten == {w.file : w \in frame.written}

\* C11: in file output mode a call with valid inputs and no segmentation
\* destination completes: it logs the warning and writes the segmentation
\* to the default file name.
C11_DefaultSegmentation ==
    (Ended /\ config.output_mode = "NIFTI_FILE" /\ ValidCall
           /\ frame.segmentation_file = None) =>
        /\ frame.pc = "done"
        /\ frame.warned
        /\ DefaultSegPath \in FilesWritten

\* The destinations passed to the last call
Supplied ==
    {IF frame.segmentation_file # None THEN frame.segmentation_file ELSE DefaultSegPath}
    \cup ({frame.whole_network_file, frame.metastasis_network_file} \ {None})

\* C12: in file output mode a successful call writes exactly the
\* segmentation destination and the mask destinations passed to that same
\* call, whatever destinations earlier calls were given, and returns no value.
C12_WritesSuppliedDestinations ==
    (frame.pc = "done" /\ config.output_mode = "NIFTI_FILE") =>
        /\ FilesWritten = Supplied
        /\ \A w \in frame.written :
              w.file = CASE w.key = "segmentation" -> frame.segmentation_file
                         [] w.key = "whole_network" -> frame.whole_network_file
                         [] OTHER -> frame.metastasis_network_file
        /\ frame.returns = None

\* A call without a whole-mask destination succeeded after a call that had one
C12_Witness ==
    /\ frame.pc = "done"
    /\ config.output_mode = "NIFTI_FILE"
    /\ frame.mapping_before.whole_network = WholePath
    /\ frame.whole_network_file = None
    /\ frame.metastasis_network_file = MetPath
    /\ FilesWritten = {SegPath, MetPath}

\* The mode of the channels call t was made with
OwnMode(t) ==
    DictGet(IMGS_TO_MODE_DICT, [i \in 1..4 |-> threads.f[t].images[i] # None])

\* C13: a call reads, in its model step, when it builds its batch or in its
\* forward pass, validated inputs, a mode, a loader or a model that the
\* other call wrote only if the two calls overlapped; serialized calls with
\* different channels never do.
C13_SerializedCallsAreSafe ==
    threads.on => \A t \in ThreadIds : threads.foreign[t] # {} => threads.overlapped

\* Two calls overlapped and one of them ran its forward pass on the model the
\* other call loaded for another mode
C13_Witness ==
    /\ threads.on
    /\ threads.overlapped
    /\ \E t \in ThreadIds :
          /\ "model" \in threads.foreign[t]
          /\ threads.f[t].runs # <<>>
          /\ threads.f[t].fwd_model.weights # OwnMode(t)
          /\ threads.f[t].fwd_model.weights = OwnMode(3 - t)

\* The forward pass gave 0.6 for the whole-lesion class and 0.3 for the
\* enhancing class at every voxel, and the threshold is 0.5
ConstantForward ==
    /\ FnDone("_post_process")
    /\ fn.arg.threshold = 500
    /\ fn.arg.outputs.den = 1
    /\ fn.arg.outputs.num = [c \in Classes |-> [p \in Pos |-> IF c = 1 THEN 600 ELSE 300]]

\* C14 as stated: with the forward pass returning 0.6 (whole) and 0.3
\* (enhancing) everywhere and threshold 0.5, the segmentation is label 1 at
\* every voxel.
C14_UniformLabelOne ==
    ConstantForward => \A p \in Pos : fn.out.segmentation[p] = 1

\* C14 amended: with those outputs both masks are 1 at every voxel, because
\* the sigmoid of 0.6 and of 0.3 both reach 0.5, and the segmentation is
\* label 2 at every voxel.
C14_UniformLabelTwo ==
    ConstantForward =>
        \A p \in Pos : /\ fn.out.whole_network[p] = 1
                       /\ fn.out.metastasis_network[p] = 1
                       /\ fn.out.segmentation[p] = 2

\* Post-processing was applied to the constant 0.6 / 0.3 outputs
C14_Witness ==
    /\ ConstantForward
    /\ \E p \in Pos : fn.out.segmentation[p] = 2 /\ fn.out.metastasis_network[p] = 1

\* Setting up the log of the last call fails: its directory cannot be made
LogSetupFails == MakeDirs(LogPath(frame.segmentation_file)) # NoRaise

\* C15: a failure while setting up the per-call log does not make infer
\* fail: a call with valid inputs still validates them, runs inference and
\* returns normally.
C15_LogFailureNotFatal ==
    (Ended /\ LogSetupFails /\ ValidCall) =>
        /\ Reached("_validate_images")
        /\ frame.runs # <<>>
        /\ frame.pc = "done"

\* What the run of round k with the volume flipped along axis d (0: not
\* flipped) adds at class c, voxel p, when its output is flipped back along
\* axis u (0: not flipped back)
Contribution(a, k, d, u, c, p) ==
    LET noisy == IF k = 0 THEN a.inputs ELSE AddNoise(a.inputs, a.noise[k])
        x == IF d = 0 THEN noisy ELSE Flip(noisy, d)
        y == inferer(x, a.mdl)
        z == IF u = 0 THEN y ELSE Flip(y, u)
    IN z[c][p]

\* The sum over the first i runs, each flipped back along its own axis
RECURSIVE SumFlippedBack(_, _, _, _, _)
SumFlippedBack(a, runs, c, p, i) ==
    IF i = 0 THEN 0
    ELSE Contribution(a, runs[i].round, runs[i].flip, runs[i].flip, c, p)
         + SumFlippedBack(a, runs, c, p, i - 1)

\* The same sum with the flipped outputs added as they come out of the engine
RECURSIVE SumNotFlippedBack(_, _, _, _, _)
SumNotFlippedBack(a, runs, c, p, i) ==
    IF i = 0 THEN 0
    ELSE Contribution(a, runs[i].round, runs[i].flip, 0, c, p)
         + SumNotFlippedBack(a, runs, c, p, i - 1)

\* C16: in each of the 4 rounds the noisy volume of the round is run first,
\* then flipped along axis 2 and run, then flipped along axis 3 and run;
\* every flipped output is flipped back along the axis its input was flipped
\* along before it is added, never left flipped and never flipped along the
\* other axis.
C16_FlipBackAlongSameAxis ==
    FnDone("_apply_test_time_augmentations") =>
        LET runs == fn.out.runs IN
        /\ \A k \in 1..TTARounds :
              /\ 3 * k + 1 <= Len(runs)
              /\ <<runs[3 * k - 1].round, runs[3 * k].round, runs[3 * k + 1].round>> = <<k, k, k>>
              /\ <<runs[3 * k - 1].flip, runs[3 * k].flip, runs[3 * k + 1].flip>> = <<0, 2, 3>>
        /\ \A i \in 1..Len(runs) : runs[i].unflip = runs[i].flip
        /\ \A c \in Classes, p \in Pos :
              fn.out.num[c][p] = SumFlippedBack(fn.arg, runs, c, p, Len(runs))

\* The ensemble was computed with noise, and leaving the flipped outputs
\* unflipped would have given another sum
C16_Witness ==
    /\ FnDone("_apply_test_time_augmentations")
    /\ fn.arg.noise = SomeNoise
    /\ \E i \in 1..Len(fn.out.runs) : fn.out.runs[i].flip = 3 /\ fn.out.runs[i].unflip = 3
    /\ \E c \in Classes, p \in Pos :
          fn.out.num[c][p] # SumNotFlippedBack(fn.arg, fn.out.runs, c, p, Len(fn.out.runs))

\* C17: for all outputs and every threshold each voxel of the merged
\* segmentation is 0, 1 or 2; it is 0 exactly where both masks are 0 and 1
\* exactly where the whole-lesion mask is 1 and the enhancing mask is 0; both
\* returned masks hold only 0 and 1.
C17_LabelsZeroOneTwo ==
    FnDone("_post_process") =>
        \A p \in Pos :
            LET seg == fn.out.segmentation[p]
                whole == fn.out.whole_network[p]
                enhancing == fn.out.metastasis_network[p]
            IN /\ seg \in {0, 1, 2}
               /\ whole \in {0, 1}
               /\ enhancing \in {0, 1}
               /\ (seg = 0) <=> (whole = 0 /\ enhancing = 0)
               /\ (seg = 1) <=> (whole = 1 /\ enhancing = 0)

\* With threshold 0.7 one volume got a voxel of label 1 and a voxel of label
\* 2 whose whole-lesion mask is 0
C17_Witness ==
    /\ FnDone("_post_process")
    /\ fn.arg.threshold = 700
    /\ \E p, q \in Pos :
          /\ fn.out.segmentation[p] = 1
          /\ fn.out.segmentation[q] = 2
          /\ fn.out.whole_network[q] = 0

\* The channels passed to the last call
PresentChannels == {i \in 1..Len(frame.images) : frame.images[i] # None}

\* C18: the loader a call builds inserts the leading channel dimension
\* (EnsureChannelFirstd) exactly when the call has one channel present; a
\* call with T1 alone resolves to the T1-only mode and its forward pass runs
\* on a batch that went through that transform.
C18_ChannelDimIffOneChannel ==
    (Ended /\ Reached("_get_data_loader")) =>
        /\ data_loader.EnsureChannelFirstd <=> (Cardinality(PresentChannels) = 1)
        /\ Len(data_loader.images) = Cardinality(PresentChannels)
        /\ PresentChannels = {1} =>
              /\ inference_mode = "t1-o"
              /\ data_loader.EnsureChannelFirstd

\* A call with the T1 file alone ran its forward pass on the T1-only model
C18_Witness ==
    /\ frame.pc = "done"
    /\ frame.images = <<"nifti", None, None, None>>
    /\ inference_mode = "t1-o"
    /\ data_loader.EnsureChannelFirstd
    /\ frame.runs # <<>>
    /\ frame.fwd_model.in_channels = 1

\* C19: a call that raises at input validation, at mode resolution or at
\* the weight load leaves the recorded mode and the cached model as they
\* were before the call.
C19_FailedCallLeavesCache ==
    (Ended /\ frame.site \in {"_validate_images", "_determine_inference_mode", "_get_model"}) =>
        /\ inference_mode = frame.prev_mode
        /\ model = frame.model_before

\* The arguments the last call was made with
FrameArgs ==
    [t1 |-> frame.images[1], t1c |-> frame.images[2], t2 |-> frame.images[3],
     fla |-> frame.images[4], segmentation_file |-> frame.segmentation_file,
     whole_network_file |-> frame.whole_network_file,
     metastasis_network_file |-> frame.metastasis_network_file]

\* C20: after any history of successful calls, a successful call returns
\* the mapping, writes the files with the reference channel and runs on the
\* weights that the same call gives on a fresh instance with the same
\* configuration.
C20_OutcomeIndependentOfHistory ==
    frame.pc = "done" =>
        \A noise \in (IF config.tta THEN NoiseSchedules ELSE {ZeroNoise}) :
            LET fresh == infer(FreshSelf, FrameArgs, config, weights, noise).f IN
            /\ fresh.pc = "done"
            /\ fresh.returns = frame.returns
            /\ fresh.returned = frame.returned
            /\ fresh.written = frame.written
            /\ fresh.fwd_model.weights = frame.fwd_model.weights
            /\ fresh.runs = frame.runs

\* A call with an array succeeded on an instance whose earlier call had
\* another mode, file inputs and a whole-mask destination
C20_Witness ==
    /\ frame.pc = "done"
    /\ frame.images[1] = "ndarray"
    /\ frame.model_before # NoModel
    /\ frame.model_before.weights # inference_mode
    /\ frame.mapping_before.whole_network = WholePath
    /\ frame.whole_network_file = None

====
